---------------------------- MODULE Spec2Model ----------------------------
(***************************************************************************)
(* Model of the conference-organization backend (src/conference.py):       *)
(* the ConferenceApi handlers over the entity store (Profile, Conference,  *)
(* Session), the task queue and the query filter compiler.                 *)
(*                                                                         *)
(* Optional values (Python None) are sequences of length at most one:      *)
(* None is <<>>, a present value v is <<v>>.                               *)
(***************************************************************************)
EXTENDS Integers, Sequences, FiniteSets, TLC

\* ------------------------------------------------------------------ bounds
MaxConfs == 1
MaxSeats == 2
MaxSessions == 3
MaxWish == 2
MaxWishSessions == 1
MaxFilters == 3
NumProcs == 2
MaxCalls == 4

\* ------------------------------------------------------------- identities
Users == {"u1", "u2"}
\* endpoints.get_current_user() returns None for an unauthenticated call
NoUser == "anonymous"
Callers == Users \cup {NoUser}

None == <<>>
Some(v) == <<v>>
IsNone(x) == x = <<>>

Range(s) == {s[i] : i \in DOMAIN s}

\* remove the first occurrence of v, as Python's list.remove does
RECURSIVE ListRemove(_, _)
ListRemove(s, v) ==
    IF s = <<>> THEN <<>>
    ELSE IF Head(s) = v THEN Tail(s)
    ELSE <<Head(s)>> \o ListRemove(Tail(s), v)

\* ------------------------------------------------------------------- keys
\* An ndb.Key and its urlsafe (websafe) string are different values that
\* round-trip to each other; the API receives and the profile lists store
\* websafe strings.
Key(kind, id) == [repr |-> "Key", kind |-> kind, id |-> id]
Urlsafe(k) == [repr |-> "urlsafe", kind |-> k.kind, id |-> k.id]
KeyFromUrlsafe(w) == [repr |-> "Key", kind |-> w.kind, id |-> w.id]

ConfIds == 1..MaxConfs
SessionIds == 1..MaxSessions
ConfWsck(c) == Urlsafe(Key("Conference", c))
SessionWsk(s) == Urlsafe(Key("Session", s))
ConfWscks == {ConfWsck(c) : c \in ConfIds}
SessionWsks == {SessionWsk(s) : s \in SessionIds}
WishSessionWsks == {SessionWsk(s) : s \in 1..MaxWishSessions}

\* ------------------------------------------------------------------ state
VARIABLES
    profiles,      \* Profile entities: user id -> entity (absent until created)
    conferences,   \* Conference entities: id -> entity
    sessions,      \* Session entities: id -> entity
    taskqueue,     \* tasks added to the task queue, in order
    last,          \* the last completed API call and its outcome
    procs,         \* requests in flight (concurrent specifications)
    reglog,        \* per conference and caller: the seats that the caller's
                   \* successful calls have taken and not given back
    compiled,      \* queryConferences: the clause list and what _getQuery gave
    memcache       \* the memcache entries: key -> value (absent until set)

vars ==
    <<profiles, conferences, sessions, taskqueue, last, procs, reglog, compiled,
      memcache>>

NoCall == [op |-> "none", caller |-> NoUser, arg |-> 0, result |-> "none",
           pre |-> None]
Call(op, caller, arg, result, pre) ==
    [op |-> op, caller |-> caller, arg |-> arg, result |-> result, pre |-> pre]

Exists(store, id) == id \in DOMAIN store
Put(store, id, e) == (id :> e) @@ store

\* seatsAvailable of conference c as an optional value (None when absent)
SeatsOf(confs, c) ==
    IF Exists(confs, c) THEN Some(confs[c].seatsAvailable) ELSE None

\* ---------------------------------------------------------------- profile
NewProfile(u) ==
    [displayName |-> u, teeShirtSize |-> "NOT_SPECIFIED",
     conferenceKeysToAttend |-> <<>>, sessionKeysWishlist |-> <<>>]

\* _getProfileFromUser: the store after the lazy creation of the caller's
\* profile (the caller is authenticated)
getProfileFromUser(profs, u) ==
    IF Exists(profs, u) THEN profs ELSE Put(profs, u, NewProfile(u))

\* ProfileMiniForm: the fields a save request may carry
ProfileMiniForm(displayName, teeShirtSize) ==
    [displayName |-> displayName, teeShirtSize |-> teeShirtSize]

\* _doProfile, lines 684-693: the profile with the request's fields applied
savedProfile(prof, save_request) ==
    [prof EXCEPT
        !.displayName = IF IsNone(save_request.displayName) THEN @
                        ELSE save_request.displayName[1],
        !.teeShirtSize = IF IsNone(save_request.teeShirtSize) THEN @
                         ELSE save_request.teeShirtSize[1]]

\* _doProfile with a save request: the result and the profiles it leaves
doProfile(profs, caller, save_request) ==
    LET ps == getProfileFromUser(profs, caller)
    IN  IF caller = NoUser THEN [result |-> "Unauthorized", profiles |-> profs]
        ELSE [result |-> "ok",
              profiles |-> Put(ps, caller, savedProfile(ps[caller], save_request))]

\* ----------------------------------------------------------- registration
\* A seat check that lets the last call through at zero seats.
noSeatsLeftOffByOne(conf) == conf.seatsAvailable < 0

\* line 738: the condition under which registration raises "no seats available"
noSeatsLeft(conf) == conf.seatsAvailable <= 0

\* lines 743-744: register user, take away one seat
registerUser(prof, conf, wsck) ==
    [prof |-> [prof EXCEPT !.conferenceKeysToAttend = Append(@, wsck)],
     conf |-> [conf EXCEPT !.seatsAvailable = @ - 1]]

\* An unregistration that forgets to give the seat back.
unregisterUserKeepsSeat(prof, conf, wsck) ==
    [prof |-> [prof EXCEPT !.conferenceKeysToAttend = ListRemove(@, wsck)],
     conf |-> conf]

\* lines 753-754: unregister user, add back one seat
unregisterUser(prof, conf, wsck) ==
    [prof |-> [prof EXCEPT !.conferenceKeysToAttend = ListRemove(@, wsck)],
     conf |-> [conf EXCEPT !.seatsAvailable = @ + 1]]

\* A membership test that finds every conference in the list.
isRegisteredAlways(prof, wsck) == TRUE

\* lines 732 and 749: wsck in prof.conferenceKeysToAttend
isRegistered(prof, wsck) == wsck \in Range(prof.conferenceKeysToAttend)

\* An exception that leaves the writes made so far in the store.
notRolledBack(before, written) == written

\* line 716, @ndb.transactional: an exception raised inside the function
\* discards what it wrote; the store holds what it held before
rolledBack(before, written) == before

\* _conferenceRegistration run as one transaction on the store (profs, confs):
\* the result returned (or the exception raised) and the store it commits.
\* An exception rolls the transaction back, the lazily created profile too.
conferenceRegistration(profs, confs, caller, wsck, reg) ==
    LET c == KeyFromUrlsafe(wsck).id
        ps == getProfileFromUser(profs, caller)
        prof == ps[caller]
        registered == isRegistered(prof, wsck)
        unchanged(res) == [result |-> res,
                           profiles |-> IF caller = NoUser THEN profs
                                        ELSE rolledBack(profs, ps),
                           conferences |-> confs]
        written(res, pc) == [result |-> res, profiles |-> Put(ps, caller, pc.prof),
                             conferences |-> Put(confs, c, pc.conf)]
    IN  IF caller = NoUser THEN unchanged("Unauthorized")
        ELSE IF ~Exists(confs, c) THEN unchanged("NotFound")
        ELSE IF reg THEN
            IF registered THEN unchanged("Conflict")
            ELSE IF noSeatsLeft(confs[c]) THEN unchanged("Conflict")
            ELSE written("true", registerUser(prof, confs[c], wsck))
        ELSE IF registered
             THEN written("true", unregisterUser(prof, confs[c], wsck))
        \* lines 760-761: both entities are put back as read
        ELSE written("false", [prof |-> prof, conf |-> confs[c]])

\* ------------------------------------------------------------- conference
\* A date string: its first ten characters as <<year, month, day>> and
\* whatever follows them (a time part), which only [:10] cuts off.
DateString(y, m, d, rest) == [ymd |-> <<y, m, d>>, rest |-> rest]

\* datetime.strptime(s, "%Y-%m-%d") accepts s: the whole string must match
StrptimeOk(s) == s.rest = "" /\ s.ymd[2] \in 1..12 /\ s.ymd[3] \in 1..31
\* datetime.strptime(s, "%Y-%m-%d").date()
StrptimeDate(s) == [year |-> s.ymd[1], month |-> s.ymd[2], day |-> s.ymd[3]]
\* s[:10]
First10(s) == [s EXCEPT !.rest = ""]

\* ConferenceForm: the request's fields, each optional
ConferenceForm(name, startDate, month, maxAttendees, seatsAvailable, organizerUserId) ==
    [name |-> name, startDate |-> startDate, month |-> month,
     maxAttendees |-> maxAttendees, seatsAvailable |-> seatsAvailable,
     organizerUserId |-> organizerUserId]

\* DEFAULTS: the value of a defaulted integer field of the request
WithDefault(x, d) == IF IsNone(x) THEN d ELSE x[1]

EmailTask(u) == [url |-> "/tasks/send_confirmation_email", param |-> u]

\* allocate_ids: an id never given out before
AllocateId(store) == Cardinality(DOMAIN store) + 1

\* _createConferenceObject: the result and the store and task queue it leaves
createConferenceObject(confs, tq, caller, req) ==
    LET unchanged(res) == [result |-> res, conferences |-> confs, taskqueue |-> tq]
        maxAttendees == WithDefault(req.maxAttendees, 0)
        seatsAvailable == WithDefault(req.seatsAvailable, 0)
        hasStart == ~IsNone(req.startDate)
        c == AllocateId(confs)
        conf == [name |-> req.name[1],
                 startDate |-> IF hasStart
                               THEN Some(StrptimeDate(First10(req.startDate[1])))
                               ELSE None,
                 month |-> IF hasStart THEN req.startDate[1].ymd[2] ELSE 0,
                 maxAttendees |-> maxAttendees,
                 seatsAvailable |-> IF maxAttendees > 0 THEN maxAttendees
                                    ELSE seatsAvailable,
                 organizerUserId |-> caller,
                 parent |-> caller]
    IN  IF caller = NoUser THEN unchanged("Unauthorized")
        ELSE IF IsNone(req.name) \/ req.name = Some("") THEN unchanged("BadRequest")
        ELSE IF hasStart /\ ~StrptimeOk(First10(req.startDate[1]))
             THEN unchanged("ValueError")
        ELSE [result |-> "ok",
              \* the entity is put twice with the same data
              conferences |-> Put(Put(confs, c, conf), c, conf),
              taskqueue |-> Append(tq, EmailTask(caller))]

\* A mutated ownership check that lets any authenticated caller through.
notOwnerNever(caller, conf) == FALSE

\* line 236: the caller is not the conference's recorded organizer
notOwner(caller, conf) == caller # conf.organizerUserId

\* lines 242-252: the request's present fields copied onto the entity.
\* all_fields() yields the fields in an order the source does not fix:
\* monthAfterStart says whether "month" is copied after "startDate".
copyFields(conf, req, monthAfterStart) ==
    LET set(old, x) == IF IsNone(x) THEN old ELSE x[1]
        hasStart == ~IsNone(req.startDate)
        hasMonth == ~IsNone(req.month)
    IN  [name |-> set(conf.name, req.name),
         startDate |-> IF hasStart THEN Some(StrptimeDate(req.startDate[1]))
                       ELSE conf.startDate,
         month |-> IF hasStart /\ (~hasMonth \/ ~monthAfterStart)
                   THEN req.startDate[1].ymd[2]
                   ELSE set(conf.month, req.month),
         maxAttendees |-> set(conf.maxAttendees, req.maxAttendees),
         seatsAvailable |-> set(conf.seatsAvailable, req.seatsAvailable),
         organizerUserId |-> set(conf.organizerUserId, req.organizerUserId),
         parent |-> conf.parent]

\* _updateConferenceObject, one transaction: an exception rolls it back
updateConferenceObject(profs, confs, caller, wsck, req, monthAfterStart) ==
    LET c == KeyFromUrlsafe(wsck).id
        unchanged(res) == [result |-> res, conferences |-> confs]
    IN  IF caller = NoUser THEN unchanged("Unauthorized")
        ELSE IF ~Exists(confs, c) THEN unchanged("NotFound")
        ELSE IF notOwner(caller, confs[c]) THEN unchanged("Forbidden")
        ELSE IF ~IsNone(req.startDate) /\ ~StrptimeOk(req.startDate[1])
             THEN unchanged("ValueError")
        \* line 255: getattr(prof, 'displayName') of a caller without a Profile
        ELSE IF ~Exists(profs, caller) THEN unchanged("AttributeError")
        ELSE [result |-> "ok",
              conferences |-> Put(confs, c, copyFields(confs[c], req, monthAfterStart))]

\* ---------------------------------------------------------------- session
\* SessionForm: the request's fields used here, name and speaker optional
SessionForm(name, speaker, wsck) ==
    [name |-> name, speaker |-> speaker, websafeConferenceKey |-> wsck]

\* Session.query(ancestor=conference).filter(Session.speaker == speaker):
\* the ids of the stored sessions of that conference by that speaker
sessionsBySpeaker(sess, c, speaker) ==
    {i \in DOMAIN sess : sess[i].parent = c /\ sess[i].speaker = speaker}

\* line 540: sessions.count() > 1, on the sessions stored before this one
speakerIsFeatured(found) == Cardinality(found) > 1

\* the names of the sessions `found`, in key order
RECURSIVE sessionNames(_, _)
sessionNames(sess, found) ==
    IF found = {} THEN <<>>
    ELSE LET i == CHOOSE x \in found : \A y \in found : x <= y
         IN  <<sess[i].name>> \o sessionNames(sess, found \ {i})

\* addSpeakerToMemCache: the task it adds
SpeakerTask(speaker, names) ==
    [url |-> "/tasks/store_speaker_in_memcache",
     param |-> [speaker |-> speaker, sessions_names |-> names]]

\* _createSessionObject: the result and the store and task queue it leaves
createSessionObject(confs, sess, tq, caller, req) ==
    LET unchanged(res) == [result |-> res, sessions |-> sess, taskqueue |-> tq]
        c == KeyFromUrlsafe(req.websafeConferenceKey).id
        s == AllocateId(sess)
        found == sessionsBySpeaker(sess, c, req.speaker)
        session == [name |-> req.name[1], speaker |-> req.speaker, parent |-> c]
    IN  IF caller = NoUser THEN unchanged("Unauthorized")
        ELSE IF IsNone(req.name) \/ req.name = Some("") THEN unchanged("BadRequest")
        ELSE IF ~Exists(confs, c) THEN unchanged("NotFound")
        ELSE IF confs[c].organizerUserId # caller THEN unchanged("Forbidden")
        ELSE [result |-> "ok",
              sessions |-> Put(sess, s, session),
              taskqueue |-> IF speakerIsFeatured(found)
                            THEN Append(tq, SpeakerTask(req.speaker,
                                                        sessionNames(sess, found)))
                            ELSE tq]

\* --------------------------------------------------------------- wishlist
\* line 595: session.key in prof.sessionKeysWishlist, the ndb.Key looked up
\* in the list of websafe strings that line 600 appends to
alreadyInWishlist(sessionKey, wishlist) == sessionKey \in Range(wishlist)

\* addSessionToWishlist: the result and the profiles it leaves
addSessionToWishlistObject(profs, sess, caller, wssk) ==
    LET key == KeyFromUrlsafe(wssk)
        ps == getProfileFromUser(profs, caller)
        prof == ps[caller]
    IN  IF caller = NoUser THEN [result |-> "Unauthorized", profiles |-> profs]
        ELSE IF ~Exists(sess, key.id) THEN [result |-> "NotFound", profiles |-> profs]
        \* the lazily created profile is already put when the check raises
        ELSE IF alreadyInWishlist(key, prof.sessionKeysWishlist)
             THEN [result |-> "BadRequest", profiles |-> ps]
        ELSE [result |-> "ok",
              profiles |-> Put(ps, caller,
                  [prof EXCEPT !.sessionKeysWishlist = Append(@, wssk)])]

\* deleteSessionInWishlist: the result and the profiles it leaves
deleteSessionInWishlistObject(profs, caller, wssk) ==
    LET ps == getProfileFromUser(profs, caller)
        prof == ps[caller]
    IN  IF caller = NoUser THEN [result |-> "Unauthorized", profiles |-> profs]
        ELSE IF wssk \in Range(prof.sessionKeysWishlist)
             THEN [result |-> "true",
                   profiles |-> Put(ps, caller,
                       [prof EXCEPT !.sessionKeysWishlist = ListRemove(@, wssk)])]
        ELSE [result |-> "false", profiles |-> ps]

\* getSessionsInWishlist: the keys of the sessions listed, one for each
\* entry of the caller's wishlist
getSessionsInWishlistObject(profs, caller) ==
    LET wishlist == getProfileFromUser(profs, caller)[caller].sessionKeysWishlist
    IN  [i \in DOMAIN wishlist |-> KeyFromUrlsafe(wishlist[i])]

\* ---------------------------------------------------------- query filters
\* OPERATORS and FIELDS (lines 61-75)
OPERATORS ==
    [EQ |-> "=", GT |-> ">", GTEQ |-> ">=", LT |-> "<", LTEQ |-> "<=", NE |-> "!="]
FIELDS ==
    [CITY |-> "city", TOPIC |-> "topics", MONTH |-> "month",
     MAX_ATTENDEES |-> "maxAttendees"]

\* A clause of ConferenceQueryForm; its value is a string, kept as the
\* sequence of its characters
Clause(field, operator, value) ==
    [field |-> field, operator |-> operator, value |-> value]

Digits == {"0", "1", "2", "3", "4", "5", "6", "7", "8", "9"}
DigitValue(ch) ==
    CASE ch = "0" -> 0 [] ch = "1" -> 1 [] ch = "2" -> 2 [] ch = "3" -> 3
      [] ch = "4" -> 4 [] ch = "5" -> 5 [] ch = "6" -> 6 [] ch = "7" -> 7
      [] ch = "8" -> 8 [] ch = "9" -> 9

\* int(value) of a string: an optional sign and one or more decimal digits
\* (surrounding blanks, which int() also accepts, are not among the
\* characters of the values used here)
IsIntString(v) ==
    LET digits == IF v # <<>> /\ Head(v) \in {"-", "+"} THEN Tail(v) ELSE v
    IN  digits # <<>> /\ \A i \in DOMAIN digits : digits[i] \in Digits

RECURSIVE DigitsValue(_)
DigitsValue(d) ==
    IF d = <<>> THEN 0
    ELSE 10 * DigitsValue(SubSeq(d, 1, Len(d) - 1)) + DigitValue(d[Len(d)])

IntOf(v) ==
    IF Head(v) = "-" THEN 0 - DigitsValue(Tail(v))
    ELSE IF Head(v) = "+" THEN DigitsValue(Tail(v))
    ELSE DigitsValue(v)

\* An inequality test with the comparison of the fields inverted.
secondInequalityFieldInverted(inequality_field, filtr) ==
    ~IsNone(inequality_field) /\ inequality_field[1] = filtr.field

\* line 346: an inequality was already used, on a different field
secondInequalityField(inequality_field, filtr) ==
    ~IsNone(inequality_field) /\ inequality_field[1] # filtr.field

\* _formatFilters, the loop from clause i on: formatted filters so far in
\* `done`, the inequality field tracked so far in inequality_field
RECURSIVE formatFiltersFrom(_, _, _, _)
formatFiltersFrom(filters, i, inequality_field, done) ==
    IF i > Len(filters)
    THEN [result |-> "ok", inequality_field |-> inequality_field, filters |-> done]
    ELSE LET f == filters[i]
         IN  IF f.field \notin DOMAIN FIELDS \/ f.operator \notin DOMAIN OPERATORS
             THEN [result |-> "BadRequest", inequality_field |-> None,
                   filters |-> <<>>]
             ELSE LET filtr == Clause(FIELDS[f.field], OPERATORS[f.operator], f.value)
                  IN  IF filtr.operator # "="
                      THEN IF secondInequalityField(inequality_field, filtr)
                           THEN [result |-> "BadRequest", inequality_field |-> None,
                                 filters |-> <<>>]
                           ELSE formatFiltersFrom(filters, i + 1, Some(filtr.field),
                                                  Append(done, filtr))
                      ELSE formatFiltersFrom(filters, i + 1, inequality_field,
                                             Append(done, filtr))

formatFilters(filters) == formatFiltersFrom(filters, 1, None, <<>>)

\* A sort order that forgets the inequality field.
queryOrderNameOnly(inequality_filter) == <<"name">>

\* lines 313-317: the sort keys of the query, all ascending
queryOrder(inequality_filter) ==
    IF IsNone(inequality_filter) THEN <<"name">>
    ELSE <<inequality_filter[1], "name">>

NumericFields == {"month", "maxAttendees"}

\* lines 319-323: the filter nodes, numeric values converted with int()
filterNode(filtr) ==
    IF filtr.field \in NumericFields
    THEN [filtr EXCEPT !.value = [int |-> IntOf(filtr.value)]]
    ELSE [filtr EXCEPT !.value = [str |-> filtr.value]]

\* _getQuery: the query built for the clause list, or the exception raised
getQuery(filters) ==
    LET ff == formatFilters(filters)
        bad == {i \in DOMAIN ff.filters :
                    /\ ff.filters[i].field \in NumericFields
                    /\ ~IsIntString(ff.filters[i].value)}
    IN  IF ff.result # "ok" THEN [result |-> ff.result, order |-> <<>>, filters |-> <<>>]
        ELSE IF bad # {} THEN [result |-> "ValueError", order |-> <<>>, filters |-> <<>>]
        ELSE [result |-> "ok",
              order |-> queryOrder(ff.inequality_field),
              filters |-> [i \in DOMAIN ff.filters |-> filterNode(ff.filters[i])]]

\* ------------------------------------------------- API calls, one at a time
Init ==
    /\ profiles = <<>>
    /\ conferences = <<>>
    /\ sessions = <<>>
    /\ taskqueue = <<>>
    /\ last = NoCall
    /\ procs = <<>>
    /\ reglog = <<>>
    /\ compiled = <<>>
    /\ memcache = <<>>

createConference(caller, req) ==
    LET r == createConferenceObject(conferences, taskqueue, caller, req)
    IN  /\ Cardinality(DOMAIN conferences) < MaxConfs
        /\ conferences' = r.conferences
        /\ taskqueue' = r.taskqueue
        /\ last' = Call("createConference", caller, AllocateId(conferences),
                        r.result, None)
        /\ UNCHANGED <<memcache, profiles, sessions, procs, reglog, compiled>>

updateConference(caller, wsck, req, monthAfterStart) ==
    LET r == updateConferenceObject(profiles, conferences, caller, wsck, req,
                                    monthAfterStart)
        c == KeyFromUrlsafe(wsck).id
    IN  /\ conferences' = r.conferences
        \* pre: the startDate of the request
        /\ last' = Call("updateConference", caller, c, r.result, req.startDate)
        /\ UNCHANGED <<memcache, profiles, sessions, taskqueue, procs, reglog, compiled>>

registerForConference(caller, wsck) ==
    LET r == conferenceRegistration(profiles, conferences, caller, wsck, TRUE)
        c == KeyFromUrlsafe(wsck).id
    IN  /\ profiles' = r.profiles
        /\ conferences' = r.conferences
        /\ last' = Call("registerForConference", caller, c, r.result,
                        SeatsOf(conferences, c))
        /\ UNCHANGED <<memcache, sessions, taskqueue, procs, reglog, compiled>>

unregisterFromConference(caller, wsck) ==
    LET r == conferenceRegistration(profiles, conferences, caller, wsck, FALSE)
        c == KeyFromUrlsafe(wsck).id
    IN  /\ profiles' = r.profiles
        /\ conferences' = r.conferences
        /\ last' = Call("unregisterFromConference", caller, c, r.result,
                        SeatsOf(conferences, c))
        /\ UNCHANGED <<memcache, sessions, taskqueue, procs, reglog, compiled>>

createSession(caller, req) ==
    LET r == createSessionObject(conferences, sessions, taskqueue, caller, req)
    IN  /\ Cardinality(DOMAIN sessions) < MaxSessions
        /\ sessions' = r.sessions
        /\ taskqueue' = r.taskqueue
        \* pre: how many task the queue held before the call
        /\ last' = Call("createSession", caller, AllocateId(sessions), r.result,
                        Some(Len(taskqueue)))
        /\ UNCHANGED <<memcache, profiles, conferences, procs, reglog, compiled>>

addSessionToWishlist(caller, wssk) ==
    LET r == addSessionToWishlistObject(profiles, sessions, caller, wssk)
        s == KeyFromUrlsafe(wssk).id
    IN  /\ caller \in DOMAIN profiles
            => Len(profiles[caller].sessionKeysWishlist) < MaxWish
        /\ profiles' = r.profiles
        \* pre: the caller's wishlist before the call
        /\ last' = Call("addSessionToWishlist", caller, s, r.result,
                        IF Exists(profiles, caller)
                        THEN Some(profiles[caller].sessionKeysWishlist) ELSE None)
        /\ UNCHANGED <<memcache, conferences, sessions, taskqueue, procs, reglog, compiled>>

deleteSessionInWishlist(caller, wssk) ==
    LET r == deleteSessionInWishlistObject(profiles, caller, wssk)
        s == KeyFromUrlsafe(wssk).id
    IN  /\ profiles' = r.profiles
        /\ last' = Call("deleteSessionInWishlist", caller, s, r.result,
                        IF Exists(profiles, caller)
                        THEN Some(profiles[caller].sessionKeysWishlist) ELSE None)
        /\ UNCHANGED <<memcache, conferences, sessions, taskqueue, procs, reglog, compiled>>

\* getProfile: _doProfile without a save request
getProfile(caller) ==
    /\ profiles' = IF caller = NoUser THEN profiles
                   ELSE getProfileFromUser(profiles, caller)
    /\ last' = Call("getProfile", caller, 0,
                    IF caller = NoUser THEN "Unauthorized" ELSE "ok", None)
    /\ UNCHANGED <<memcache, conferences, sessions, taskqueue, procs, reglog, compiled>>

saveProfile(caller, save_request) ==
    LET r == doProfile(profiles, caller, save_request)
    IN  /\ profiles' = r.profiles
        /\ last' = Call("saveProfile", caller, 0, r.result, None)
        /\ UNCHANGED <<memcache, conferences, sessions, taskqueue, procs, reglog, compiled>>

\* ---------------------------------------------------------- announcements
MEMCACHE_ANNOUNCEMENTS_KEY == "RECENT_ANNOUNCEMENTS"

\* memcache.set and memcache.delete
memcacheSet(mc, key, value) == (key :> value) @@ mc
memcacheDelete(mc, key) == [k \in DOMAIN mc \ {key} |-> mc[k]]

\* A threshold that leaves out the conference with exactly five seats.
almostSoldOutBelowFive(conf) == conf.seatsAvailable < 5 /\ conf.seatsAvailable > 0

\* lines 812-814: the filter of the query for nearly sold out conferences
almostSoldOut(conf) == conf.seatsAvailable <= 5 /\ conf.seatsAvailable > 0

\* _cacheAnnouncement: the announcement returned and the memcache it leaves.
\* The query is answered from the conferences as they are stored.
cacheAnnouncement(confs, mc) ==
    LET found == {c \in DOMAIN confs : almostSoldOut(confs[c])}
    IN  IF found # {}
        THEN [announcement |-> "Last chance to attend!",
              memcache |-> memcacheSet(mc, MEMCACHE_ANNOUNCEMENTS_KEY,
                                       "Last chance to attend!")]
        ELSE [announcement |-> "",
              memcache |-> memcacheDelete(mc, MEMCACHE_ANNOUNCEMENTS_KEY)]

\* getAnnouncement asks for no authenticated caller
getAnnouncement ==
    LET r == cacheAnnouncement(conferences, memcache)
    IN  /\ memcache' = r.memcache
        /\ last' = Call("getAnnouncement", NoUser, 0, r.announcement, None)
        /\ UNCHANGED <<profiles, conferences, sessions, taskqueue, procs, reglog,
                       compiled>>

\* ------------------------------------------- API calls running concurrently
\* Each request in flight is a process. A handler that is not transactional
\* reads its entities in one step and puts them in a later one, and the
\* requests of other processes may run in between. _conferenceRegistration
\* runs in a transaction: it reads a snapshot and its writes are committed
\* only if what it read is still what the store holds; otherwise it is run
\* again, and after its retries fails.
Procs == 1..NumProcs

Idle ==
    [pc |-> "idle", op |-> "none", caller |-> NoUser, arg |-> None,
     prof |-> None, conf |-> None]

Get(store, id) == IF Exists(store, id) THEN Some(store[id]) ELSE None

\* the store holding just the entity read (or nothing)
Local(id, e) == IF IsNone(e) THEN <<>> ELSE (id :> e[1])

ConcInit ==
    /\ profiles = <<>>
    /\ conferences = <<>>
    /\ sessions = <<>>
    /\ taskqueue = <<>>
    /\ last = NoCall
    /\ procs = [calls |-> 0, run |-> [p \in Procs |-> Idle]]
    /\ reglog = [c \in ConfIds |-> [u \in Users |-> 0]]
    /\ compiled = <<>>
    /\ memcache = <<>>

\* a request arrives at process p
Arrives(p) == procs.run[p].pc = "idle" /\ procs.calls < MaxCalls

\* process p takes up a request
Runs(p, proc) == [calls |-> procs.calls + 1, run |-> [procs.run EXCEPT ![p] = proc]]

\* the request of process p ends
Returns(p) == procs' = [procs EXCEPT !.run[p] = Idle]

\* A transaction that commits without checking what it read.
txnValidUnchecked(proc) == TRUE

\* line 716, @ndb.transactional(xg=True): the entities the transaction read
\* are unchanged in the store
txnValid(proc) ==
    /\ Get(profiles, proc.caller) = proc.prof
    /\ Get(conferences, proc.arg[1].id) = proc.conf

\* the transaction starts: its reads see the store as it is now
beginRegistration(p, caller, wsck, reg) ==
    /\ Arrives(p)
    /\ procs' = Runs(p,
           [pc |-> "txn",
            op |-> IF reg THEN "registerForConference"
                   ELSE "unregisterFromConference",
            caller |-> caller, arg |-> Some(wsck),
            prof |-> Get(profiles, caller),
            conf |-> Get(conferences, KeyFromUrlsafe(wsck).id)])
    /\ UNCHANGED <<memcache, profiles, conferences, sessions, taskqueue, last, reglog, compiled>>

\* what _conferenceRegistration computes from the snapshot of a process
registrationOf(proc) ==
    conferenceRegistration(Local(proc.caller, proc.prof),
                           Local(proc.arg[1].id, proc.conf),
                           proc.caller, proc.arg[1],
                           proc.op = "registerForConference")

\* the function raises: the transaction is rolled back
raiseRegistration(p) ==
    LET r == registrationOf(procs.run[p])
    IN  /\ procs.run[p].pc = "txn"
        /\ r.result \notin {"true", "false"}
        /\ Returns(p)
        /\ UNCHANGED <<memcache, profiles, conferences, sessions, taskqueue, last, reglog,
                       compiled>>

\* the function returns and the transaction commits both entities
commitRegistration(p) ==
    LET proc == procs.run[p]
        r == registrationOf(proc)
        c == proc.arg[1].id
    IN  /\ proc.pc = "txn"
        /\ r.result \in {"true", "false"}
        /\ txnValid(proc)
        /\ profiles' = Put(profiles, proc.caller, r.profiles[proc.caller])
        /\ conferences' = Put(conferences, c, r.conferences[c])
        /\ reglog' = IF r.result # "true" THEN reglog
                     ELSE IF proc.op = "registerForConference"
                     THEN [reglog EXCEPT ![c][proc.caller] = @ + 1]
                     ELSE [reglog EXCEPT ![c][proc.caller] = @ - 1]
        /\ Returns(p)
        /\ UNCHANGED <<memcache, sessions, taskqueue, last, compiled>>

\* the commit finds an entity changed: the function is run again on the
\* store as it is now
retryRegistration(p) ==
    LET proc == procs.run[p]
    IN  /\ proc.pc = "txn"
        /\ registrationOf(proc).result \in {"true", "false"}
        /\ ~txnValid(proc)
        /\ procs' = [procs EXCEPT !.run[p] =
               [@ EXCEPT !.prof = Get(profiles, proc.caller),
                         !.conf = Get(conferences, proc.arg[1].id)]]
        /\ UNCHANGED <<memcache, profiles, conferences, sessions, taskqueue, last, reglog,
                       compiled>>

\* the commit finds an entity changed and the retries are used up: the call
\* fails with TransactionFailedError
failRegistration(p) ==
    LET proc == procs.run[p]
    IN  /\ proc.pc = "txn"
        /\ registrationOf(proc).result \in {"true", "false"}
        /\ ~txnValid(proc)
        /\ Returns(p)
        /\ UNCHANGED <<memcache, profiles, conferences, sessions, taskqueue, last, reglog,
                       compiled>>

\* The handlers that write the caller's Profile outside a transaction.
ProfileOps ==
    {"addSessionToWishlist", "deleteSessionInWishlist", "saveProfile", "getProfile"}

\* the handler of process p, run on the profile it holds: the result and
\* the profile it leaves
profileCallOf(proc) ==
    LET ps == Local(proc.caller, proc.prof)
    IN  CASE proc.op = "addSessionToWishlist" ->
                 addSessionToWishlistObject(ps, sessions, proc.caller, proc.arg[1])
          [] proc.op = "deleteSessionInWishlist" ->
                 deleteSessionInWishlistObject(ps, proc.caller, proc.arg[1])
          [] proc.op = "saveProfile" -> doProfile(ps, proc.caller, proc.arg[1])
          [] proc.op = "getProfile" -> [result |-> "ok", profiles |-> ps]

\* whether the handler ends with prof.put() (lines 601, 631, 694)
putsProfile(op, result) ==
    \/ op = "addSessionToWishlist" /\ result = "ok"
    \/ op = "deleteSessionInWishlist" /\ result = "true"
    \/ op = "saveProfile"

\* _getProfileFromUser, line 664: the handler gets the caller's profile.
\* (addSessionToWishlist gets the session first and raises NotFound.)
beginProfileCall(p, caller, op, arg) ==
    LET prof == Get(profiles, caller)
        notFound == op = "addSessionToWishlist"
                        /\ ~Exists(sessions, KeyFromUrlsafe(arg[1]).id)
    IN  /\ Arrives(p)
        /\ (op = "addSessionToWishlist" /\ ~IsNone(prof))
               => Len(prof[1].sessionKeysWishlist) < MaxWish
        /\ procs' = Runs(p,
               IF notFound \/ (op = "getProfile" /\ ~IsNone(prof)) THEN Idle
               ELSE [pc |-> IF IsNone(prof) THEN "create" ELSE "put",
                     op |-> op, caller |-> caller, arg |-> arg,
                     prof |-> prof, conf |-> None])
        /\ UNCHANGED <<memcache, profiles, conferences, sessions, taskqueue, last, reglog,
                       compiled>>

\* _getProfileFromUser, lines 666-673: no profile was found, a new one is put
createProfile(p) ==
    LET proc == procs.run[p]
    IN  /\ proc.pc = "create"
        /\ profiles' = Put(profiles, proc.caller, NewProfile(proc.caller))
        /\ procs' = [procs EXCEPT !.run[p] =
               IF proc.op = "getProfile" THEN Idle
               ELSE [proc EXCEPT !.pc = "put",
                                 !.prof = Some(NewProfile(proc.caller))]]
        /\ UNCHANGED <<memcache, conferences, sessions, taskqueue, last, reglog, compiled>>

\* the rest of the handler: the profile it holds is changed and put
putProfile(p) ==
    LET proc == procs.run[p]
        r == profileCallOf(proc)
    IN  /\ proc.pc = "put"
        /\ profiles' = IF putsProfile(proc.op, r.result)
                       THEN Put(profiles, proc.caller, r.profiles[proc.caller])
                       ELSE profiles
        /\ Returns(p)
        /\ UNCHANGED <<memcache, conferences, sessions, taskqueue, last, reglog, compiled>>

\* Requests of the registration scenario: conferences differ in their seats.
SeatForms ==
    {ConferenceForm(Some("conf"), None, None, m, s, None) :
        m \in {None} \cup {Some(n) : n \in 0..MaxSeats},
        s \in {None, Some(-1), Some(1)}}

Next ==
    \/ \E u \in Callers, req \in SeatForms : createConference(u, req)
    \/ \E u \in Callers, w \in ConfWscks : registerForConference(u, w)
    \/ \E u \in Callers, w \in ConfWscks : unregisterFromConference(u, w)

Spec == Init /\ [][Next]_vars

\* ------------------------------------------- conferences and their owners
March3 == DateString(2016, 3, 3, "")
May5 == DateString(2016, 5, 5, "")
\* a date string with a time part, which strptime("%Y-%m-%d") refuses
May5Noon == DateString(2016, 5, 5, "T12:00")

CreateForms ==
    {ConferenceForm(n, d, None, Some(1), None, None) :
        n \in {None, Some("conf")}, d \in {None, Some(March3)}}

UpdateForms ==
    {ConferenceForm(n, d, m, None, None, o) :
        n \in {None, Some("renamed")}, d \in {None, Some(May5), Some(May5Noon)},
        m \in {None, Some(7)}, o \in {None, Some("u2")}}

\* the orders of "month" and "startDate" in all_fields() that differ in effect
FieldOrders(req) ==
    IF IsNone(req.month) \/ IsNone(req.startDate) THEN {FALSE} ELSE BOOLEAN

ConfNext ==
    \/ \E u \in Callers, req \in CreateForms : createConference(u, req)
    \/ \E u \in Callers, w \in ConfWscks, req \in UpdateForms :
           \E b \in FieldOrders(req) : updateConference(u, w, req, b)
    \/ \E u \in Callers : getProfile(u)

ConfSpec == Init /\ [][ConfNext]_vars

\* --------------------------------------------- sessions of a conference
Speakers == {"ann", "bob"}
PlainForm == ConferenceForm(Some("conf"), None, None, Some(1), None, None)
SessionForms ==
    {SessionForm(n, sp, w) :
        n \in {None, Some("talk"), Some("demo")}, sp \in Speakers, w \in ConfWscks}

SessionNext ==
    \/ \E u \in Users : createConference(u, PlainForm)
    \/ \E u \in Callers, req \in SessionForms : createSession(u, req)

SessionSpec == Init /\ [][SessionNext]_vars

\* ------------------------------------------------------------ the wishlist
WishSessionForm == SessionForm(Some("talk"), "ann", ConfWsck(1))

WishNext ==
    \/ createConference("u1", PlainForm)
    \/ Cardinality(DOMAIN sessions) < MaxWishSessions
           /\ createSession("u1", WishSessionForm)
    \/ \E u \in Callers, w \in WishSessionWsks : addSessionToWishlist(u, w)
    \/ \E u \in Callers, w \in WishSessionWsks : deleteSessionInWishlist(u, w)

WishSpec == Init /\ [][WishNext]_vars

\* ------------------------------------------------------- queryConferences
\* The clause lists of a request: known and unknown fields and operators,
\* integer and non-integer values.
QueryFields == {"CITY", "MONTH", "NAME"}
QueryOperators == {"EQ", "GT", "NE", "LIKE"}
QueryValues == {<<"1", "2">>, <<"1", "x">>}
Clauses ==
    {Clause(f, o, v) : f \in QueryFields, o \in QueryOperators, v \in QueryValues}
ClauseLists == UNION {[1..n -> Clauses] : n \in 0..MaxFilters}

QueryInit ==
    /\ profiles = <<>>
    /\ conferences = <<>>
    /\ sessions = <<>>
    /\ taskqueue = <<>>
    /\ last = NoCall
    /\ procs = <<>>
    /\ reglog = <<>>
    /\ compiled \in {[filters |-> fs, query |-> None] : fs \in ClauseLists}
    /\ memcache = <<>>

queryConferences ==
    /\ IsNone(compiled.query)
    /\ compiled' = [compiled EXCEPT !.query = Some(getQuery(compiled.filters))]
    /\ UNCHANGED <<memcache, profiles, conferences, sessions, taskqueue, last, procs, reglog>>

QueryNext == queryConferences

QuerySpec == QueryInit /\ [][QueryNext]_vars

\* -------------------------------------------- registrations racing for seats
RaceForms ==
    {ConferenceForm(Some("conf"), None, None, Some(n), None, None) : n \in 1..MaxSeats}

\* createConference runs as one step here: what is interleaved are the
\* registrations.
RaceNext ==
    \/ \E req \in RaceForms : createConference("u1", req)
    \/ \E p \in Procs, u \in Users, w \in ConfWscks :
           beginRegistration(p, u, w, TRUE)
    \/ \E p \in Procs : raiseRegistration(p)
    \/ \E p \in Procs : commitRegistration(p)
    \/ \E p \in Procs : retryRegistration(p)
    \/ \E p \in Procs : failRegistration(p)

RaceSpec == ConcInit /\ [][RaceNext]_vars

\* ------------------------- registrations among the other profile writers
SaveForm == ProfileMiniForm(Some("nick"), None)

ProfileCallArgs(op) ==
    CASE op = "addSessionToWishlist" -> {Some(w) : w \in WishSessionWsks}
      [] op = "deleteSessionInWishlist" -> {Some(w) : w \in WishSessionWsks}
      [] op = "saveProfile" -> {Some(SaveForm)}
      [] op = "getProfile" -> {None}

\* createConference and createSession run as one step here: what is
\* interleaved are the calls that write a Profile.
ConcNext ==
    \/ createConference("u1", PlainForm)
    \/ Cardinality(DOMAIN sessions) < MaxWishSessions
           /\ createSession("u1", WishSessionForm)
    \/ \E p \in Procs, u \in Users, w \in ConfWscks, reg \in BOOLEAN :
           beginRegistration(p, u, w, reg)
    \/ \E p \in Procs : raiseRegistration(p)
    \/ \E p \in Procs : commitRegistration(p)
    \/ \E p \in Procs : retryRegistration(p)
    \/ \E p \in Procs : failRegistration(p)
    \/ \E p \in Procs, u \in Users, op \in ProfileOps :
           \E arg \in ProfileCallArgs(op) : beginProfileCall(p, u, op, arg)
    \/ \E p \in Procs : createProfile(p)
    \/ \E p \in Procs : putProfile(p)

ConcSpec == ConcInit /\ [][ConcNext]_vars

\* ------------------------------------------------------------ registration
RegistrationOps == {"registerForConference", "unregisterFromConference"}

\* C1 as stated: for every caller, registerForConference on a conference
\* whose seatsAvailable is 0 fails with Conflict, and no register or
\* unregister call leaves seatsAvailable below zero after lowering it.
C1_EveryCallerConflict ==
    /\ (last.op = "registerForConference" /\ last.pre = Some(0))
           => last.result = "Conflict"
    /\ (last.op \in RegistrationOps /\ ~IsNone(last.pre)
            /\ conferences[last.arg].seatsAvailable < last.pre[1])
           => conferences[last.arg].seatsAvailable >= 0

\* C1 amended: for every authenticated caller, registerForConference on a
\* conference whose seatsAvailable is 0 fails with Conflict and leaves
\* seatsAvailable at 0; and no register or unregister call leaves
\* seatsAvailable below zero after lowering it.
C1_AuthenticatedConflict ==
    /\ (last.op = "registerForConference" /\ last.pre = Some(0)
            /\ last.caller \in Users)
           => /\ last.result = "Conflict"
              /\ conferences[last.arg].seatsAvailable = 0
    /\ (last.op \in RegistrationOps /\ ~IsNone(last.pre)
            /\ conferences[last.arg].seatsAvailable < last.pre[1])
           => conferences[last.arg].seatsAvailable >= 0

\* a user not yet registered was refused at zero seats, after the seats of
\* the conference had been taken by registrations
C1_Witness ==
    /\ last.op = "registerForConference" /\ last.pre = Some(0)
    /\ last.caller \in Users /\ last.result = "Conflict"
    /\ conferences[last.arg].maxAttendees > 0
    /\ Exists(profiles, last.caller) => 
           ConfWsck(last.arg) \notin Range(profiles[last.caller].conferenceKeysToAttend)

\* C4: a successful registerForConference followed by unregisterFromConference
\* of the same caller for the same conference succeeds, returns seatsAvailable
\* to its value before the registration and leaves the conference's reference
\* absent from the caller's conferenceKeysToAttend.
C4_RoundTrip ==
    [][(/\ last.op = "registerForConference" /\ last.result = "true"
        /\ last'.op = "unregisterFromConference"
        /\ last'.caller = last.caller /\ last'.arg = last.arg)
       => /\ last'.result = "true"
          /\ conferences'[last.arg].seatsAvailable = last.pre[1]
          /\ ConfWsck(last.arg) \notin
                 Range(profiles'[last.caller].conferenceKeysToAttend)]_vars

\* an unregistration succeeded (so a registration of that caller preceded
\* it) and the conference has all its seats again
C4_Witness ==
    /\ last.op = "unregisterFromConference" /\ last.result = "true"
    /\ conferences[last.arg].seatsAvailable = conferences[last.arg].maxAttendees
    /\ conferences[last.arg].seatsAvailable = last.pre[1] + 1
    /\ profiles[last.caller].conferenceKeysToAttend = <<>>

\* ------------------------------------------------------------ the wishlist
\* C5 as stated: addSessionToWishlist by an authenticated caller for an
\* existing session the caller's wishlist already holds fails with
\* BadRequest, and no wishlist holds the same session twice.
C5_DuplicateRejected ==
    /\ (/\ last.op = "addSessionToWishlist" /\ last.caller \in Users
        /\ Exists(sessions, last.arg) /\ ~IsNone(last.pre)
        /\ SessionWsk(last.arg) \in Range(last.pre[1]))
           => last.result = "BadRequest"
    /\ \A u \in DOMAIN profiles :
           \A i, j \in DOMAIN profiles[u].sessionKeysWishlist :
               profiles[u].sessionKeysWishlist[i] = profiles[u].sessionKeysWishlist[j]
                   => i = j

\* ---------------------------------------------------- the featured speaker
\* the sessions of the conference of session s by the speaker of session s
sessionsOfSpeakerOf(s) ==
    sessionsBySpeaker(sessions, sessions[s].parent, sessions[s].speaker)

\* C6 as stated: a successful createSession after which the speaker has two
\* or more sessions in that conference adds exactly one featured-speaker
\* task, and one after which the speaker has exactly one session adds none.
C6_FeaturedSpeakerDispatch ==
    (last.op = "createSession" /\ last.result = "ok")
        => /\ Cardinality(sessionsOfSpeakerOf(last.arg)) >= 2
                  => /\ Len(taskqueue) = last.pre[1] + 1
                     /\ taskqueue[Len(taskqueue)].url = "/tasks/store_speaker_in_memcache"
           /\ Cardinality(sessionsOfSpeakerOf(last.arg)) = 1
                  => Len(taskqueue) = last.pre[1]

\* --------------------------------------------------------- the query filters
\* the fields of the request that carry an operator other than EQ
inequalityFields(filters) ==
    {filters[i].field : i \in {j \in DOMAIN filters : filters[j].operator # "EQ"}}

recognized(filters) ==
    \A i \in DOMAIN filters :
        filters[i].field \in DOMAIN FIELDS /\ filters[i].operator \in DOMAIN OPERATORS

queryDone == ~IsNone(compiled.query)

\* C7: a clause list in which two or more distinct fields carry a non-EQ
\* operator is rejected with BadRequest and yields no query; a list of
\* recognized clauses with non-EQ operators on at most one field is not
\* rejected with BadRequest.
C7_OneInequalityField ==
    queryDone =>
        /\ Cardinality(inequalityFields(compiled.filters)) >= 2
               => compiled.query[1] =
                      [result |-> "BadRequest", order |-> <<>>, filters |-> <<>>]
        /\ (recognized(compiled.filters)
                /\ Cardinality(inequalityFields(compiled.filters)) <= 1)
               => compiled.query[1].result # "BadRequest"

\* rejected: recognized clauses, inequalities on two fields that are not
\* adjacent in the list
C7_Witness ==
    /\ queryDone
    /\ compiled.query[1].result = "BadRequest"
    /\ recognized(compiled.filters)
    /\ Len(compiled.filters) = 3
    /\ compiled.filters[1].operator # "EQ"
    /\ compiled.filters[2].operator = "EQ"
    /\ compiled.filters[3].operator # "EQ"
    /\ compiled.filters[1].field # compiled.filters[3].field

\* C8: the sort keys of an accepted clause list are the inequality field,
\* then name, when a non-EQ clause is present, and name alone when none is.
C8_SortKeys ==
    (queryDone /\ compiled.query[1].result = "ok")
        => LET fields == inequalityFields(compiled.filters)
           IN  /\ fields = {} => compiled.query[1].order = <<"name">>
               /\ \A f \in fields : compiled.query[1].order = <<FIELDS[f], "name">>

\* accepted: CITY = ... and MONTH > ..., sorted by month, then name
C8_Witness ==
    /\ queryDone
    /\ compiled.query[1].result = "ok"
    /\ Len(compiled.filters) >= 2
    /\ compiled.filters[1].field = "CITY" /\ compiled.filters[1].operator = "EQ"
    /\ compiled.filters[2].field = "MONTH" /\ compiled.filters[2].operator = "GT"
    /\ compiled.query[1].order = <<"month", "name">>

\* C9 as stated: a recognized clause list with a clause on MONTH or
\* MAX_ATTENDEES whose value is no integer string fails with BadRequest.
C9_NonIntegerIsBadRequest ==
    (/\ queryDone
     /\ \E i \in DOMAIN compiled.filters :
            /\ compiled.filters[i].field \in {"MONTH", "MAX_ATTENDEES"}
            /\ ~IsIntString(compiled.filters[i].value))
        => compiled.query[1].result = "BadRequest"

\* ------------------------------------------------------- updateConference
\* C10: updateConference by an authenticated caller who is not the stored
\* organizerUserId of the conference fails with Forbidden and leaves every
\* stored conference, the profiles and the task queue as they were.
C10_NonOwnerForbidden ==
    [][(/\ last'.op = "updateConference"
        /\ last'.caller \in Users
        /\ Exists(conferences, last'.arg)
        /\ last'.caller # conferences[last'.arg].organizerUserId)
       => /\ last'.result = "Forbidden"
          /\ conferences' = conferences
          /\ profiles' = profiles /\ taskqueue' = taskqueue]_vars

\* a user with a profile, who is not the organizer, was refused
C10_Witness ==
    /\ last.op = "updateConference" /\ last.result = "Forbidden"
    /\ last.caller \in DOMAIN profiles
    /\ conferences[last.arg].organizerUserId # last.caller

\* ------------------------------------------------- concurrent registrations
\* C2 as stated: in every state, under any interleaving of the registration
\* calls with the other calls that write the caller's Profile, a caller holds
\* a seat of conference c exactly if the caller's profile holds c's reference.
C2_RegistrationAtomic ==
    \A c \in DOMAIN conferences : \A u \in Users :
        reglog[c][u] = 1
            <=> /\ Exists(profiles, u)
                /\ ConfWsck(c) \in Range(profiles[u].conferenceKeysToAttend)

RECURSIVE SeatsTaken(_, _)
SeatsTaken(log, users) ==
    IF users = {} THEN 0
    ELSE LET u == CHOOSE x \in users : TRUE
         IN  log[u] + SeatsTaken(log, users \ {u})

AllReturned == \A p \in Procs : procs.run[p].pc = "idle"

\* C3: when the concurrent registrations have all returned, seatsAvailable
\* of each conference is its initial value less the number of registrations
\* that returned success, and no more registrations succeeded than there
\* were seats.
C3_NoLostSeatUpdate ==
    AllReturned =>
        \A c \in DOMAIN conferences :
            /\ conferences[c].seatsAvailable =
                   conferences[c].maxAttendees - SeatsTaken(reglog[c], Users)
            /\ SeatsTaken(reglog[c], Users) <= conferences[c].maxAttendees

\* two registrations of different callers ran together for the last seat:
\* one has returned success and taken it, the other still runs on the
\* snapshot it read before, which shows one seat
C3_Witness ==
    \E p, q \in Procs, c \in DOMAIN conferences :
        /\ procs.run[p].pc = "idle" /\ procs.run[q].pc = "txn"
        /\ procs.run[q].arg = Some(ConfWsck(c))
        /\ procs.run[q].conf # None /\ procs.run[q].conf[1].seatsAvailable = 1
        /\ conferences[c].seatsAvailable = 0
        /\ SeatsTaken(reglog[c], Users) = conferences[c].maxAttendees
        /\ \E u \in DOMAIN profiles :
               /\ u # procs.run[q].caller
               /\ ConfWsck(c) \in Range(profiles[u].conferenceKeysToAttend)

\* ------------------------------------------- the nearly-sold-out announcement
\* Five users register for a conference of five or of ten seats.
Attendees == {"a1", "a2", "a3", "a4", "a5"}
AnnForms ==
    {ConferenceForm(Some("conf"), None, None, Some(n), None, None) : n \in {5, 10}}

AnnNext ==
    \/ \E req \in AnnForms : createConference("u1", req)
    \/ \E u \in Attendees : registerForConference(u, ConfWsck(1))
    \/ \E u \in Attendees : unregisterFromConference(u, ConfWsck(1))
    \/ getAnnouncement

AnnSpec == Init /\ [][AnnNext]_vars

\* the users whose profile holds the reference of conference c
holders(c) ==
    {u \in DOMAIN profiles : ConfWsck(c) \in Range(profiles[u].conferenceKeysToAttend)}

announcementPresent ==
    /\ MEMCACHE_ANNOUNCEMENTS_KEY \in DOMAIN memcache
    /\ memcache[MEMCACHE_ANNOUNCEMENTS_KEY] = "Last chance to attend!"

\* C13: after each getAnnouncement call the announcement entry holds the
\* fixed string exactly if some conference has 0 < seatsAvailable <= 5, and
\* is absent otherwise; a conference created with maxAttendees 10 for which
\* five users are registered has seatsAvailable 5 and makes it present.
C13_AnnouncementCache ==
    /\ last.op = "getAnnouncement"
           => /\ announcementPresent
                     <=> \E c \in DOMAIN conferences :
                             /\ 0 < conferences[c].seatsAvailable
                             /\ conferences[c].seatsAvailable <= 5
              /\ ~announcementPresent
                     => MEMCACHE_ANNOUNCEMENTS_KEY \notin DOMAIN memcache
    /\ \A c \in DOMAIN conferences :
           (conferences[c].maxAttendees = 10 /\ Cardinality(holders(c)) = 5)
               => /\ conferences[c].seatsAvailable = 5
                  /\ last.op = "getAnnouncement" => announcementPresent

\* the scenario: ten seats, five users registered, the announcement is set
C13_Witness ==
    /\ last.op = "getAnnouncement"
    /\ announcementPresent
    /\ \E c \in DOMAIN conferences :
           /\ conferences[c].maxAttendees = 10
           /\ conferences[c].seatsAvailable = 5
           /\ holders(c) = Attendees

\* ---------------------------------------------- unregistering a non-member
\* conferenceKeysToAttend of user u (empty while u has no profile)
keysToAttend(profs, u) ==
    IF Exists(profs, u) THEN profs[u].conferenceKeysToAttend ELSE <<>>

NamelessForm == ConferenceForm(None, None, None, Some(1), None, None)
RenameForm == ConferenceForm(Some("renamed"), None, None, None, None, None)
ErrSessionForms ==
    {SessionForm(n, "ann", ConfWsck(1)) : n \in {None, Some("talk")}}

\* The calls aim at the first conference and the first session, before and
\* after these exist.
ErrNext ==
    \/ \E u \in Callers, req \in {NamelessForm} \cup RaceForms :
           createConference(u, req)
    \/ \E u \in Callers : updateConference(u, ConfWsck(1), RenameForm, FALSE)
    \/ \E u \in Callers : registerForConference(u, ConfWsck(1))
    \/ \E u \in Callers, req \in ErrSessionForms :
           Cardinality(DOMAIN sessions) < MaxWishSessions /\ createSession(u, req)
    \/ \E u \in Callers : addSessionToWishlist(u, SessionWsk(1))
    \/ getAnnouncement

ErrSpec == Init /\ [][ErrNext]_vars

\* the exceptions of the error taxonomy
ErrorResults == {"Unauthorized", "Forbidden", "NotFound", "BadRequest", "Conflict"}

C11_MonthFollowsStartDate ==
    /\ (/\ last.op = "updateConference" /\ last.result = "ok"
        /\ ~IsNone(last.pre))
           => conferences[last.arg].month = last.pre[1].ymd[2]
    /\ \A c \in DOMAIN conferences :
           ~IsNone(conferences[c].startDate)
               => conferences[c].month = conferences[c].startDate[1].month

\* ------------------------------------------------------- createConference
\* C12 as stated: after a successful createConference the stored conference
\* has seatsAvailable equal to its maxAttendees and organizerUserId equal to
\* the caller's id.
C12_SeatsStartAtMaxAttendees ==
    (last.op = "createConference" /\ last.result = "ok")
        => /\ conferences[last.arg].seatsAvailable =
                  conferences[last.arg].maxAttendees
           /\ conferences[last.arg].organizerUserId = last.caller

\* ------------------------------------------------------ the recorded owner
\* C16 as stated: in every state reached by createConference and
\* updateConference calls, the organizerUserId of a conference is the user
\* id of the Profile its key is parented under.
C16_OwnerIsCreator ==
    \A c \in DOMAIN conferences :
        conferences[c].organizerUserId = conferences[c].parent

\* ------------------------------------------------ the seats of a conference
\* Updates that set the seat counts of the conference.
SeatUpdateForms ==
    {ConferenceForm(None, None, None, m, s, None) :
        m \in {None, Some(MaxSeats)}, s \in {None, Some(0)}}

SeatNext ==
    \/ \E u \in Users, req \in RaceForms : createConference(u, req)
    \/ \E u \in Users, w \in ConfWscks, req \in SeatUpdateForms :
           updateConference(u, w, req, FALSE)
    \/ \E u \in Users, w \in ConfWscks : registerForConference(u, w)
    \/ \E u \in Users, w \in ConfWscks : unregisterFromConference(u, w)

SeatSpec == Init /\ [][SeatNext]_vars

\* C17 as stated: in every state reached by createConference,
\* updateConference, registerForConference and unregisterFromConference
\* calls, seatsAvailable of each conference is its maxAttendees less the
\* number of profiles that hold its reference, and lies in 0..maxAttendees.
C17_SeatsAccount ==
    \A c \in DOMAIN conferences :
        /\ conferences[c].seatsAvailable =
               conferences[c].maxAttendees - Cardinality(holders(c))
        /\ 0 <= conferences[c].seatsAvailable
        /\ conferences[c].seatsAvailable <= conferences[c].maxAttendees

\* ------------------------------------------------ deleting from the wishlist
\* C18 as stated: after a deleteSessionInWishlist call for session S that
\* returned true, S is absent from the caller's sessionKeysWishlist and
\* getSessionsInWishlist does not list it.
C18_DeletedIsAbsent ==
    (last.op = "deleteSessionInWishlist" /\ last.result = "true")
        => /\ SessionWsk(last.arg) \notin
                  Range(profiles[last.caller].sessionKeysWishlist)
           /\ Key("Session", last.arg) \notin
                  Range(getSessionsInWishlistObject(profiles, last.caller))

=============================================================================
